---- MODULE Spec2Model ----
(***************************************************************************)
(* Model of backend.py: the Flask route POST /api/analyze                  *)
(* (analyze_report) and its helper analyze_with_gemini, together with the  *)
(* module-level initialisation of the Gemini client handle.                *)
(*                                                                         *)
(* Python strings are TLA+ strings; Python values that cross a function    *)
(* boundary (return values, JSON documents) are records                    *)
(* [kind, obj, str] so that None, str and dict stay comparable.            *)
(* A request served by a worker thread blocks at client.generate_content,  *)
(* so the handler is split at that call: analyze_report runs up to the     *)
(* outbound call, generate_content is the service's answer, and            *)
(* analyze_report_resume runs the rest of the handler.                     *)
(***************************************************************************)
EXTENDS Integers, Sequences, FiniteSets, TLC

VARIABLES GEMINI_API_KEY, client, pc, req, calls, reply, result, resp

vars == <<GEMINI_API_KEY, client, pc, req, calls, reply, result, resp>>

(***************************************************************************)
(* Bounds and program constants                                            *)
(***************************************************************************)
NumRequests == 2

SliceLimit == 500

TemperatureTenths == 2

Requests == 1..NumRequests

\* Python's None, for request.files.get / request.form.get / client.
NoneVal == "<None>"

(***************************************************************************)
(* Python values                                                           *)
(***************************************************************************)
PyUnset == [kind |-> "unset", obj |-> <<>>, str |-> ""]

PyNone == [kind |-> "None", obj |-> <<>>, str |-> ""]

PyStr(s) == [kind |-> "str", obj |-> <<>>, str |-> s]

PyDict(f) == [kind |-> "dict", obj |-> f, str |-> ""]

(***************************************************************************)
(* Strings                                                                 *)
(***************************************************************************)
Min(a, b) == IF a <= b THEN a ELSE b

Ch(s, i) == IF i \in 1..Len(s) THEN SubSeq(s, i, i) ELSE ""

Contains(s, sub) ==
    \E i \in 1..(Len(s) - Len(sub) + 1) : SubSeq(s, i, i + Len(sub) - 1) = sub

StartsWith(s, pre) == Len(s) >= Len(pre) /\ SubSeq(s, 1, Len(pre)) = pre

\* response.text[:500]
SliceOffByOne(text) == SubSeq(text, 1, Min(SliceLimit - 1, Len(text)))

Slice500(text) == SubSeq(text, 1, Min(SliceLimit, Len(text)))

(***************************************************************************)
(* json.loads, on the JSON subset the catalogue of model outputs uses:     *)
(* null, a string without escapes, and an object whose members are         *)
(* string : string, all without whitespace.  Everything else in the        *)
(* catalogue is not JSON at all and raises JSONDecodeError.                *)
(***************************************************************************)
DQ == "\""

\* index of the quote closing the string literal that opens at i, 0 if none
StrEnd(s, i) ==
    LET js == {j \in (i + 1)..Len(s) : Ch(s, j) = DQ}
    IN  IF js = {} THEN 0 ELSE CHOOSE j \in js : \A k \in js : j <= k

StrBody(s, i, e) == IF e = i + 1 THEN "" ELSE SubSeq(s, i + 1, e - 1)

JSONDecodeError == [ok |-> FALSE, val |-> PyUnset]

Parsed(v) == [ok |-> TRUE, val |-> v]

RECURSIVE Members(_, _, _)
Members(s, i, acc) ==
    LET ke == StrEnd(s, i) IN
    IF Ch(s, i) # DQ \/ ke = 0 THEN JSONDecodeError
    ELSE IF Ch(s, ke + 1) # ":" \/ Ch(s, ke + 2) # DQ THEN JSONDecodeError
    ELSE LET ve == StrEnd(s, ke + 2) IN
         IF ve = 0 THEN JSONDecodeError
         ELSE LET acc2 == (StrBody(s, i, ke) :> StrBody(s, ke + 2, ve)) @@ acc IN
              IF Ch(s, ve + 1) = "}"
              THEN IF ve + 1 = Len(s) THEN Parsed(PyDict(acc2)) ELSE JSONDecodeError
              ELSE IF Ch(s, ve + 1) = ","
                   THEN Members(s, ve + 2, acc2)
                   ELSE JSONDecodeError

json_loads(s) ==
    IF s = "null" THEN Parsed(PyNone)
    ELSE IF Ch(s, 1) = DQ
         THEN IF StrEnd(s, 1) = Len(s) THEN Parsed(PyStr(StrBody(s, 1, Len(s))))
              ELSE JSONDecodeError
    ELSE IF Ch(s, 1) = "{"
         THEN IF s = "{}" THEN Parsed(PyDict(<<>>)) ELSE Members(s, 2, <<>>)
    ELSE JSONDecodeError

(***************************************************************************)
(* Inputs: environment, uploads, type tags, answers of the service         *)
(***************************************************************************)
ApiKeys == {NoneVal, "", "AIza-key"}

ImageStreams == {"PNG:A", "PNG:B"}

AllFiles == {NoneVal, "not-an-image"} \cup ImageStreams

SmallFiles == {NoneVal, "not-an-image", "PNG:A", "PNG:B"}

AllTypes == {NoneVal, "", "medical_image", "blood_report", "prescription",
             "Prescription", "prescription ", "xray"}

SmallTypes == {"prescription", "blood_report"}

X10 == "xxxxxxxxxx"

X100 == X10 \o X10 \o X10 \o X10 \o X10 \o X10 \o X10 \o X10 \o X10 \o X10

X499 == X100 \o X100 \o X100 \o X100 \o X10 \o X10 \o X10 \o X10 \o X10
             \o X10 \o X10 \o X10 \o X10 \o "xxxxxxxxx"

X500 == X499 \o "y"

X501 == X500 \o "z"

TextGood == "{\"summary\":\"ok\",\"severity\":\"Low\",\"details\":\"d\"}"

TextOddSeverity ==
    "{\"summary\":\"ok\",\"severity\":\"unknown\",\"details\":\"d\"}"

TextOther == "{\"summary\":\"rx\",\"severity\":\"Severe\",\"details\":\"1-0-1\"}"

TextExtraField == "{\"summary\":\"ok\",\"note\":\"n\"}"

TextNull == "null"

TextLongString == DQ \o X501 \o DQ

TextCutOff == "{\"summary\":\"ok\""

TextProse == "Sure! Here is the analysis."

ValidTexts == {TextGood, TextOddSeverity, TextOther, TextExtraField, TextNull,
               TextLongString}

InvalidTexts == {TextCutOff, TextProse, X499, X500, X501}

ErrorMessages == {"429 quota exceeded", ""}

TextReply(t) == [kind |-> "text", text |-> t, msg |-> ""]

RaiseReply(m) == [kind |-> "raise", text |-> "", msg |-> m]

NoReply == [kind |-> "none", text |-> "", msg |-> ""]

AllReplies == {TextReply(t) : t \in ValidTexts \cup InvalidTexts \cup {""}}
              \cup {RaiseReply(m) : m \in ErrorMessages}

SmallReplies == {TextReply(TextGood), TextReply(TextOther), TextReply(""),
                 RaiseReply("429 quota exceeded")}

NoReq == [file |-> NoneVal, type |-> NoneVal]

(***************************************************************************)
(* Module initialisation: the client handle                                *)
(***************************************************************************)
GenerativeModel == "GenerativeModel(gemini-2.0-flash-lite)"

InitClient(key, configure_raises) ==
    IF key \in {NoneVal, ""} THEN NoneVal
    ELSE IF configure_raises THEN NoneVal
    ELSE GenerativeModel

(***************************************************************************)
(* analyze_with_gemini, piece by piece                                     *)
(***************************************************************************)
\* `if not client`
ClientAlwaysAvailable == TRUE

ClientAvailable == client # NoneVal

ServiceUnavailableResult ==
    PyDict([summary |-> "AI Service Not Available. Check API key setup.",
            severity |-> "Error", details |-> "N/A"])

\* Image.open(file_stream)
DecodeErrorMessage == "cannot identify image file"

Image_open(stream) ==
    IF stream \in ImageStreams
    THEN [raised |-> FALSE, img |-> "Image(" \o stream \o ")", msg |-> ""]
    ELSE [raised |-> TRUE, img |-> "", msg |-> DecodeErrorMessage]

system_instruction ==
    "You are an expert, empathetic AI medical report analyzer. "
    \o "Analyze the uploaded document (X-ray, lab report, or prescription). "
    \o "Your output must be easy for a layperson to understand. "
    \o "Critically, your output must strictly adhere to the provided JSON schema. "
    \o "Do NOT include any text outside of the JSON object."

PromptMedicalImage ==
    "Analyze this X-ray, CT, or medical image. Identify and describe any significant findings related to bone, tissue, or organs in simple, non-technical language. Provide a brief summary."

PromptBloodReport ==
    "Analyze this lab report image. Identify all abnormal or out-of-range parameters. Explain what the deviation from the normal range might suggest in simple, simple terms."

PromptPrescription ==
    "Decode this prescription image. List all medications, their dosage, and the precise daily schedule/frequency. "
    \o "Place the decoded information in the 'details' field."

PromptGeneric == "Analyze this image and explain the medical content simply."

SelectPromptPrefix(upload_type) ==
    IF StartsWith(upload_type, "medical_image") THEN PromptMedicalImage
    ELSE IF StartsWith(upload_type, "blood_report") THEN PromptBloodReport
    ELSE IF StartsWith(upload_type, "prescription") THEN PromptPrescription
    ELSE PromptGeneric

SelectPrompt(upload_type) ==
    IF upload_type = "medical_image" THEN PromptMedicalImage
    ELSE IF upload_type = "blood_report" THEN PromptBloodReport
    ELSE IF upload_type = "prescription" THEN PromptPrescription
    ELSE PromptGeneric

\* built by the function, handed to no call
response_schema ==
    [type |-> "OBJECT",
     properties |-> [summary |-> [type |-> "STRING", enum |-> {}],
                     severity |-> [type |-> "STRING",
                                   enum |-> {"Low", "Moderate", "Severe",
                                             "Informational"}],
                     details |-> [type |-> "STRING", enum |-> {}]],
     required |-> {"summary", "severity", "details"}]

\* the arguments of client.generate_content
GenerateContentCall(img, prompt) ==
    [contents |-> <<system_instruction, img, prompt>>,
     generation_config |-> [temperature |-> TemperatureTenths]]

ParseErrorResult(text) ==
    PyDict([summary |-> "Error parsing AI response", severity |-> "Error",
            details |-> Slice500(text)])

ExceptionResultNoMessage(msg) ==
    PyDict([summary |-> "Gemini API or processing failed: ",
            severity |-> "Error", details |-> "N/A"])

ExceptionResult(msg) ==
    PyDict([summary |-> "Gemini API or processing failed: " \o msg,
            severity |-> "Error", details |-> "N/A"])

CoerceSeverity(v) ==
    IF v.kind = "dict" /\ "severity" \in DOMAIN v.obj
       /\ v.obj["severity"] \notin {"Low", "Moderate", "Severe", "Informational"}
    THEN PyDict([v.obj EXCEPT !["severity"] = "Informational"])
    ELSE v

ParseResponseCoercing(text) ==
    IF text # ""
    THEN LET p == json_loads(text) IN
         IF p.ok THEN CoerceSeverity(p.val) ELSE ParseErrorResult(text)
    ELSE PyNone

\* `if response.text:` ... ; an empty text leaves the if and the try, and the
\* function ends without a return statement
ParseResponse(text) ==
    IF text # ""
    THEN LET p == json_loads(text) IN
         IF p.ok THEN p.val ELSE ParseErrorResult(text)
    ELSE PyNone

(***************************************************************************)
(* analyze_report                                                          *)
(***************************************************************************)
\* `if not file`
FileNeverMissing(file) == FALSE

FileMissing(file) == file = NoneVal

jsonify(v) == [mimetype |-> "application/json", json |-> v]

NoResp == [status |-> 0, body |-> jsonify(PyUnset)]

MissingFileBody == PyDict([error |-> "No file uploaded"])

\* `response = client.generate_content(...)`: a local of the serving thread
ResponseOfShared(r) == reply[1]

ResponseOf(r) == reply[r]

Return200(r, res) ==
    /\ result' = [result EXCEPT ![r] = res]
    /\ resp' = [resp EXCEPT ![r] = [status |-> 200, body |-> jsonify(res)]]
    /\ pc' = [pc EXCEPT ![r] = "done"]

Init ==
    /\ GEMINI_API_KEY \in ApiKeys
    /\ \E configure_raises \in BOOLEAN :
           client = InitClient(GEMINI_API_KEY, configure_raises)
    /\ pc = [r \in Requests |-> "idle"]
    /\ req = [r \in Requests |-> NoReq]
    /\ calls = [r \in Requests |-> <<>>]
    /\ reply = [r \in Requests |-> NoReply]
    /\ result = [r \in Requests |-> PyUnset]
    /\ resp = [r \in Requests |-> NoResp]

\* the handler from the arrival of the request to its first blocking point
analyze_report(r, Files, Types) ==
    /\ pc[r] = "idle"
    /\ \E file \in Files, upload_type \in Types :
        /\ req' = [req EXCEPT ![r] = [file |-> file, type |-> upload_type]]
        /\ IF FileMissing(file)
           THEN /\ resp' = [resp EXCEPT ![r] =
                              [status |-> 400, body |-> jsonify(MissingFileBody)]]
                /\ pc' = [pc EXCEPT ![r] = "done"]
                /\ UNCHANGED <<result, calls>>
           ELSE IF ~ClientAvailable
           THEN /\ Return200(r, ServiceUnavailableResult)
                /\ UNCHANGED calls
           ELSE LET opened == Image_open(file) IN
                IF opened.raised
                THEN /\ Return200(r, ExceptionResult(opened.msg))
                     /\ UNCHANGED calls
                ELSE /\ calls' = [calls EXCEPT ![r] = Append(@,
                            GenerateContentCall(opened.img, SelectPrompt(upload_type)))]
                     /\ pc' = [pc EXCEPT ![r] = "blocked"]
                     /\ UNCHANGED <<result, resp>>
    /\ UNCHANGED <<GEMINI_API_KEY, client, reply>>

\* the inference service answers the call of request r
generate_content(r, Replies) ==
    /\ pc[r] = "blocked"
    /\ \E out \in Replies : reply' = [reply EXCEPT ![r] = out]
    /\ pc' = [pc EXCEPT ![r] = "returned"]
    /\ UNCHANGED <<GEMINI_API_KEY, client, req, calls, result, resp>>

\* the rest of the handler once generate_content has returned or raised
analyze_report_resume(r) ==
    /\ pc[r] = "returned"
    /\ LET response == ResponseOf(r) IN
       IF response.kind = "raise"
       THEN Return200(r, ExceptionResult(response.msg))
       ELSE Return200(r, ParseResponse(response.text))
    /\ UNCHANGED <<GEMINI_API_KEY, client, req, calls, reply>>

Next ==
    \E r \in Requests :
        \/ analyze_report(r, SmallFiles, SmallTypes)
        \/ generate_content(r, SmallReplies)
        \/ analyze_report_resume(r)

Spec == Init /\ [][Next]_vars

NextOne ==
    \/ analyze_report(1, AllFiles, AllTypes)
    \/ generate_content(1, AllReplies)
    \/ analyze_report_resume(1)

SpecOne == Init /\ [][NextOne]_vars

TypeOK ==
    /\ client \in {NoneVal, GenerativeModel}
    /\ pc \in [Requests -> {"idle", "blocked", "returned", "done"}]
    /\ \A r \in Requests : Len(calls[r]) <= 1

(***************************************************************************)
(* Properties                                                              *)
(***************************************************************************)
Done(r) == pc[r] = "done"

HasFile(r) == req[r].file # NoneVal

ResultFields == {"summary", "severity", "details"}

IsAnalysisResult(v) == v.kind = "dict" /\ ResultFields \subseteq DOMAIN v.obj

ErrorResult(summary, details) ==
    PyDict([summary |-> summary, severity |-> "Error", details |-> details])

\* C1: every request that carries a file, whatever the client state, the
\* upload and the inference outcome (text, empty text, error), gets exactly
\* one AnalysisResult (an object with summary, severity and details) from
\* analyze_with_gemini, that object is the response body, and the body is
\* never null.
C1_AlwaysAnalysisResult ==
    \A r \in Requests :
        Done(r) /\ HasFile(r) =>
            /\ IsAnalysisResult(result[r])
            /\ resp[r].body.json = result[r]
            /\ resp[r].body.json.kind # "None"

\* the failures of section 7 of the specification, for a request with a file
ClientUnavailableFailure(r) == client = NoneVal

DecodeFailure(r) == client # NoneVal /\ req[r].file \notin ImageStreams

InferenceFailure(r) == reply[r].kind = "raise"

UnparseableOutput(r) == reply[r].kind = "text" /\ ~json_loads(reply[r].text).ok

InternalFailure(r) ==
    \/ ClientUnavailableFailure(r)
    \/ DecodeFailure(r)
    \/ InferenceFailure(r)
    \/ UnparseableOutput(r)

\* C2: every internal failure of a request with a file (client unavailable,
\* decode error, inference error, unparseable model output) yields status
\* 200 and a body of severity "Error"; the status is 400 exactly when the
\* file is missing and 200 otherwise.
C2_FailuresAre200Error ==
    \A r \in Requests :
        Done(r) =>
            /\ resp[r].status = 400 <=> ~HasFile(r)
            /\ resp[r].status = 200 <=> HasFile(r)
            /\ HasFile(r) /\ InternalFailure(r) =>
                  /\ resp[r].status = 200
                  /\ resp[r].body.json.kind = "dict"
                  /\ "severity" \in DOMAIN resp[r].body.json.obj
                  /\ resp[r].body.json.obj["severity"] = "Error"

\* C3: while the client handle is unavailable, every request with a file
\* gets status 200 and exactly the fixed "AI Service Not Available" result,
\* no outbound inference call is made, and the handle never becomes
\* available later.
C3_UnavailableIsTerminal ==
    /\ [](client = NoneVal =>
            \A r \in Requests :
                /\ calls[r] = <<>>
                /\ Done(r) /\ HasFile(r) =>
                      /\ resp[r].status = 200
                      /\ resp[r].body.json =
                            ErrorResult("AI Service Not Available. Check API key setup.",
                                        "N/A")
                      /\ DOMAIN resp[r].body.json.obj = ResultFields)
    /\ [][client = NoneVal => client' = NoneVal]_vars

C3_Witness ==
    /\ client = NoneVal
    /\ \A r \in Requests : Done(r) /\ req[r].file \in ImageStreams

\* C4: a request without a file gets status 400 and the body
\* {"error": "No file uploaded"} whatever its type and the client state,
\* analyze_with_gemini is not invoked and no outbound call is made.
C4_MissingFileIs400 ==
    \A r \in Requests :
        Done(r) /\ ~HasFile(r) =>
            /\ resp[r].status = 400
            /\ resp[r].body.json.kind = "dict"
            /\ resp[r].body.json.obj = [error |-> "No file uploaded"]
            /\ result[r] = PyUnset
            /\ calls[r] = <<>>

C4_Witness ==
    /\ Done(1) /\ ~HasFile(1)
    /\ req[1].type = "prescription"
    /\ client # NoneVal

\* C5: with the client available and the image decoded, a non-empty text
\* that is not valid JSON gives summary "Error parsing AI response",
\* severity "Error" and details = the first 500 characters of the text: the
\* whole text up to length 500, exactly the 500-character prefix beyond.
C5_ParseErrorTruncates ==
    \A r \in Requests :
        ( /\ Done(r) /\ client # NoneVal /\ req[r].file \in ImageStreams
          /\ reply[r].kind = "text" /\ reply[r].text \in InvalidTexts ) =>
            LET text == reply[r].text
                d == result[r].obj["details"]
            IN  /\ result[r].kind = "dict"
                /\ DOMAIN result[r].obj = ResultFields
                /\ result[r].obj["summary"] = "Error parsing AI response"
                /\ result[r].obj["severity"] = "Error"
                /\ Len(text) <= 500 => d = text
                /\ Len(text) > 500 => Len(d) = 500 /\ StartsWith(text, d)
                /\ text = X501 => d = X500

C5_Witness == Done(1) /\ reply[1] = TextReply(X501) /\ result[1].kind = "dict"

\* the value each valid JSON text of the catalogue denotes
ValueOf(text) ==
    CASE text = TextGood ->
            PyDict([summary |-> "ok", severity |-> "Low", details |-> "d"])
      [] text = TextOddSeverity ->
            PyDict([summary |-> "ok", severity |-> "unknown", details |-> "d"])
      [] text = TextOther ->
            PyDict([summary |-> "rx", severity |-> "Severe", details |-> "1-0-1"])
      [] text = TextExtraField -> PyDict([summary |-> "ok", note |-> "n"])
      [] text = TextNull -> PyNone
      [] text = TextLongString -> PyStr(X501)

\* C6: a text that is valid JSON is returned as parsed, unmodified: no
\* field added, removed or rewritten, and a severity outside
\* {Low, Moderate, Severe, Informational} is passed through.
C6_ValidJsonVerbatim ==
    \A r \in Requests :
        Done(r) /\ reply[r].kind = "text" /\ reply[r].text \in ValidTexts =>
            /\ result[r] = ValueOf(reply[r].text)
            /\ result[r].kind = "dict" =>
                  DOMAIN result[r].obj = DOMAIN ValueOf(reply[r].text).obj

C6_Witness ==
    /\ Done(1) /\ reply[1] = TextReply(TextOddSeverity)
    /\ result[1].obj["severity"] = "unknown"

\* C7: with the client available, an error with message m raised by image
\* decoding or by the inference call is not propagated: the result is
\* summary "Gemini API or processing failed: " followed by m, severity
\* "Error", details "N/A", after a single attempt (no second outbound call).
C7_ExceptionAbsorbed ==
    \A r \in Requests :
        /\ ( /\ Done(r) /\ HasFile(r) /\ client # NoneVal
             /\ req[r].file \notin ImageStreams ) =>
               /\ result[r] = ErrorResult("Gemini API or processing failed: "
                                          \o "cannot identify image file", "N/A")
               /\ resp[r] = [status |-> 200, body |-> jsonify(result[r])]
               /\ Len(calls[r]) = 0
        /\ reply[r].kind = "raise" =>
               /\ Len(calls[r]) = 1
               /\ pc[r] \in {"returned", "done"}
               /\ Done(r) =>
                     /\ result[r] = ErrorResult("Gemini API or processing failed: "
                                                \o reply[r].msg, "N/A")
                     /\ resp[r] = [status |-> 200, body |-> jsonify(result[r])]

C7_Witness ==
    /\ Done(1) /\ reply[1] = RaiseReply("429 quota exceeded")
    /\ result[1].obj["summary"] = "Gemini API or processing failed: 429 quota exceeded"

\* C8: every outbound inference call carries the fixed system instruction,
\* the selected prompt, the decoded image, the three-field output schema
\* (severity restricted to Low/Moderate/Severe/Informational) and
\* temperature 0.2.
C8_CallCarriesSchema ==
    \A r \in Requests : \A i \in 1..Len(calls[r]) :
        LET call == calls[r][i] IN
        /\ call.contents[1] = system_instruction
        /\ call.contents[2] = "Image(" \o req[r].file \o ")"
        /\ call.contents[3] \in {PromptMedicalImage, PromptBloodReport,
                                 PromptPrescription, PromptGeneric}
        /\ call.generation_config.temperature = 2
        /\ \/ /\ "response_schema" \in DOMAIN call.generation_config
              /\ call.generation_config.response_schema = response_schema
           \/ /\ "response_schema" \in DOMAIN call
              /\ call.response_schema = response_schema

\* C9: the prompt of the call is chosen by exact match on upload_type:
\* medical_image, blood_report and prescription each have their own
\* instruction, the prescription one directs the decoded content into the
\* 'details' field, every other value (missing, empty, ...) gets the
\* generic instruction.
C9_PromptByExactMatch ==
    /\ Cardinality({PromptMedicalImage, PromptBloodReport, PromptPrescription,
                    PromptGeneric}) = 4
    /\ \A r \in Requests : \A i \in 1..Len(calls[r]) :
        LET prompt == calls[r][i].contents[3]
            upload_type == req[r].type
        IN  /\ upload_type = "medical_image" => prompt = PromptMedicalImage
            /\ upload_type = "blood_report" => prompt = PromptBloodReport
            /\ upload_type = "prescription" =>
                  /\ prompt = PromptPrescription
                  /\ Contains(prompt, "in the 'details' field")
            /\ upload_type \notin {"medical_image", "blood_report", "prescription"}
                  => prompt = PromptGeneric

C9_Witness ==
    /\ Len(calls[1]) = 1
    /\ req[1].type = "prescription"
    /\ calls[1][1].contents[3] = PromptPrescription

\* what request r is owed, from its own file, type and inference outcome
OwnCall(r) ==
    [contents |-> <<system_instruction, "Image(" \o req[r].file \o ")",
                    SelectPrompt(req[r].type)>>,
     generation_config |-> [temperature |-> 2]]

OwnResult(r) ==
    IF client = NoneVal THEN ServiceUnavailableResult
    ELSE IF req[r].file \notin ImageStreams THEN ExceptionResult(DecodeErrorMessage)
    ELSE IF reply[r].kind = "raise" THEN ExceptionResult(reply[r].msg)
    ELSE ParseResponse(reply[r].text)

\* C10: under any interleaving, the response of a request is determined by
\* its own file, type and inference outcome only, never by another
\* request's result, prompt or text; the only shared state is the client
\* handle, which no request writes.
C10_RequestsIndependent ==
    /\ [](\A r \in Requests :
            /\ calls[r] \in {<<>>, <<OwnCall(r)>>}
            /\ Done(r) /\ HasFile(r) =>
                  resp[r] = [status |-> 200, body |-> jsonify(OwnResult(r))]
            /\ Done(r) /\ ~HasFile(r) =>
                  resp[r] = [status |-> 400, body |-> jsonify(MissingFileBody)])
    /\ [][client' = client]_vars

C10_Witness ==
    /\ Done(1) /\ Done(2)
    /\ reply[1] = TextReply(TextGood) /\ reply[2] = TextReply(TextOther)
    /\ req[1].file # req[2].file /\ req[1].type # req[2].type
    /\ resp[1].body.json.obj["summary"] = "ok"
    /\ resp[2].body.json.obj["summary"] = "rx"

====
